---- MODULE Spec2Model ----
(***************************************************************************)
(* Model of the chat server (src/unnamed/part_001): the users registry,    *)
(* the socket bindings, the in-memory message store and the Socket.IO      *)
(* event handlers that mutate them.                                        *)
(*                                                                         *)
(* Strings are sequences of ASCII codes, so that sorting, joining,         *)
(* trimming and lower-casing are computed the way the JavaScript does.     *)
(* Socket ids are positive integers; null is NoSocket.  Every handler runs *)
(* to completion before the next event (Node's single event loop), so one  *)
(* handler is one action.  The events an action emits are recorded in      *)
(* `out`, each with the set of sockets it is delivered to, until the       *)
(* transport takes them (Flush).                                           *)
(*                                                                         *)
(* Spec draws the payloads the contract asks for: user ids and bodies are *)
(* strings.  SpecPayload adds the payloads that are not (missing fields,   *)
(* blank bodies, no payload object); SpecHist starts from long             *)
(* conversations; SpecRegister posts names of every shape; SpecStore lets  *)
(* the store grow; SpecClient puts the chat page (src/unnamed/part_000) in *)
(* front of the server.                                                    *)
(***************************************************************************)
EXTENDS Integers, Sequences, FiniteSets, TLC

VARIABLES users, userOrder, connections, messages, sockets, nextSocket, out,
          returned,  \* what the last direct call of getChatHistory returned
          thrown,    \* the exception that escaped a handler, if one did
          page       \* the chat page of one client (src/unnamed/part_000)

vars == <<users, userOrder, connections, messages, sockets, nextSocket, out, returned, thrown, page>>

(* ---------------------------- bounds ----------------------------------- *)
MaxSockets == 2
MaxMsgs == 1
MaxHistory == 51
MaxPending == 2

(* ---------------------------- strings ---------------------------------- *)
Underscore == 95
Space == 32
DefaultLimit == 50
MaxNameLength == 20
NoSocket == 0
PageSocket == 1

Null == <<0>>
\* undefined, and a number: values that are no string
Undefined == <<-1>>
NumberValue == <<-2>>
IsString(v) == \A i \in 1..Len(v) : v[i] > 0

\* no exception, and the TypeError of reading a property of undefined or of
\* calling what is no function
NoException == ""
TypeError == "TypeError"

Str_user == <<117, 115, 101, 114>>
Str_msg == <<109, 115, 103>>

\* String.prototype.trim
RECURSIVE TrimStart(_)
TrimStart(s) ==
  IF s = <<>> THEN <<>>
  ELSE IF Head(s) = Space THEN TrimStart(Tail(s)) ELSE s

RECURSIVE TrimEnd(_)
TrimEnd(s) ==
  IF s = <<>> THEN <<>>
  ELSE IF s[Len(s)] = Space THEN TrimEnd(SubSeq(s, 1, Len(s) - 1)) ELSE s

Trim(s) == TrimEnd(TrimStart(s))

\* String.prototype.toLowerCase on ASCII
ToLowerCase(s) == [i \in 1..Len(s) |-> IF s[i] >= 65 /\ s[i] <= 90 THEN s[i] + 32 ELSE s[i]]

\* the default comparison of Array.prototype.sort: by code unit, a proper
\* prefix first
StrLess(a, b) ==
  LET n == IF Len(a) < Len(b) THEN Len(a) ELSE Len(b)
      differ == {i \in 1..n : a[i] # b[i]}
  IN IF differ = {} THEN Len(a) < Len(b)
     ELSE LET first == CHOOSE i \in differ : \A j \in differ : i <= j
          IN a[first] < b[first]

\* [a, b].sort()
Sort2(a, b) == IF StrLess(b, a) THEN <<b, a>> ELSE <<a, b>>

\* arr.join("_") of a two-element array
Join2(arr) == arr[1] \o <<Underscore>> \o arr[2]

\* Array.prototype.slice(-limit)
SliceLast(arr, limit) ==
  IF limit > 0
    THEN SubSeq(arr, (IF Len(arr) > limit THEN Len(arr) - limit + 1 ELSE 1), Len(arr))
    ELSE IF limit = 0 THEN arr
    ELSE SubSeq(arr, (IF -limit > Len(arr) THEN Len(arr) + 1 ELSE 1 - limit), Len(arr))

(* ---------------------------- inputs ----------------------------------- *)
\* Date.now() and Math.random().toString(36).substr(2, 9) are the
\* environment's: both registrations fall in millisecond "1", the random parts
\* are "z" and then "a", so that registration order is not sort order
Now == <<49>>
RandomTrace == <<(<<122>>), (<<97>>)>>

\* `user_${Date.now()}_${Math.random().toString(36).substr(2, 9)}`
GenUserId(now, rnd) == Str_user \o <<Underscore>> \o now \o <<Underscore>> \o rnd

\* `msg_${Date.now()}_${...}`: a fresh id, the n-th one generated
GenMsgId(n) == Str_msg \o <<Underscore>> \o <<48 + n>>

IdPool == {GenUserId(Now, RandomTrace[n]) : n \in 1..Len(RandomTrace)}

\* ids a client may put in a payload: generated ids and a string that is no
\* id ("user_1")
ClientIds == IdPool \cup {Str_user \o <<Underscore, 49>>}

\* "Al ", "Al", "b"
Usernames == {<<65, 108, 32>>, <<65, 108>>, <<98>>}

\* " hi "
Bodies == {<<32, 104, 105, 32>>}

(* ---------------------------- helpers ---------------------------------- *)
\* variant: the key is the smaller id alone
getConversationIdFirst(user1, user2) == Sort2(user1, user2)[1]

\* variant: the ids are joined as given, not sorted
getConversationIdUnsorted(user1, user2) == Join2(<<user1, user2>>)

getConversationId(user1, user2) == Join2(Sort2(user1, user2))

RECURSIVE OnlineFrom(_, _, _)
OnlineFrom(order, us, excludeUserId) ==
  IF order = <<>> THEN <<>>
  ELSE LET userId == Head(order)
           rest == OnlineFrom(Tail(order), us, excludeUserId)
       IN IF us[userId].online /\ userId # excludeUserId
            THEN <<[userId |-> userId, username |-> us[userId].username]>> \o rest
            ELSE rest

\* getOnlineUsers over a registry `us` (iterated in insertion order)
getOnlineUsersReversed(us, excludeUserId) ==
  LET list == OnlineFrom(userOrder, us, excludeUserId)
  IN [i \in 1..Len(list) |-> list[Len(list) + 1 - i]]

getOnlineUsers(us, excludeUserId) == OnlineFrom(userOrder, us, excludeUserId)

getChatHistoryIn(store, user1, user2, limit) ==
  LET conversationId == getConversationId(user1, user2)
      history == IF conversationId \in DOMAIN store THEN store[conversationId] ELSE <<>>
  IN SliceLast(history, limit)

getChatHistoryUnlimited(user1, user2) == getChatHistoryIn(messages, user1, user2, 0)

getChatHistory(user1, user2) == getChatHistoryIn(messages, user1, user2, DefaultLimit)

RECURSIVE SumLen(_, _)
SumLen(store, keys) ==
  IF keys = {} THEN 0
  ELSE LET k == CHOOSE x \in keys : TRUE
       IN Len(store[k]) + SumLen(store, keys \ {k})

\* totalMessages of the health check
totalMessages == SumLen(messages, DOMAIN messages)

(* ---------------------------- the chat page ---------------------------- *)
\* useState(null), useState([]) of ChatPage; `once` holds, for every pending
\* socket.once("chat-history") listener, the selectedUser it closes over;
\* `sent` holds the events the page emitted and the server has not handled
InitialPage == [selectedUser |-> Null, messages |-> <<>>, once |-> <<>>, sent |-> <<>>]

(* ---------------------------- emissions -------------------------------- *)
NoMsg == [id |-> Null, senderId |-> Null, senderName |-> Null,
          recipientId |-> Null, recipientName |-> Null, message |-> Null]

EmptyData == [userId |-> Null, username |-> Null, msg |-> NoMsg, users |-> <<>>,
              messages |-> <<>>, text |-> "", isTyping |-> FALSE]

Emission(event, to, data) == [event |-> event, to |-> to, data |-> data]

\* socket.emit
SocketEmit(s, event, data) == Emission(event, {s}, data)
\* io.emit: every connected socket
IoEmit(conn, event, data) == Emission(event, conn, data)
\* socket.broadcast.emit: every connected socket but the sender
BroadcastEmit(conn, s, event, data) == Emission(event, conn \ {s}, data)
\* io.to(socketId).emit: the socket with that id, when it is still connected
IoToEmitEveryone(conn, socketId, event, data) == Emission(event, conn, data)

IoToEmit(conn, socketId, event, data) == Emission(event, conn \cap {socketId}, data)

(* ---------------------------- initial state ---------------------------- *)
Init ==
  /\ users = [u \in {} |-> 0]
  /\ userOrder = <<>>
  /\ connections = [s \in {} |-> 0]
  /\ messages = [k \in {} |-> 0]
  /\ sockets = {}
  /\ nextSocket = 1
  /\ out = <<>>
  /\ returned = <<>>
  /\ thrown = NoException
  /\ page = InitialPage

(* ---------------------------- state updates ---------------------------- *)
\* map.set(key, value)
MapSet(map, key, value) ==
  [k \in DOMAIN map \cup {key} |-> IF k = key THEN value ELSE map[k]]

\* map.delete(key)
MapDeleteSameValue(map, key) ==
  [k \in {x \in DOMAIN map : key \notin DOMAIN map \/ map[x] # map[key]} |-> map[k]]

MapDelete(map, key) == [k \in DOMAIN map \ {key} |-> map[k]]

\* user-login: user.socketId = socket.id; user.online = true
LoginUserNoHandle(user, s) == [user EXCEPT !.online = TRUE]

LoginUser(user, s) == [user EXCEPT !.socketId = s, !.online = TRUE]

\* disconnect: user.online = false; user.socketId = null
DisconnectUserStaysOnline(user) == [user EXCEPT !.socketId = NoSocket]

DisconnectUser(user) == [user EXCEPT !.online = FALSE, !.socketId = NoSocket]

\* variant: logout keeps the socket id
LogoutUserStaysOnline(user) == [user EXCEPT !.socketId = NoSocket]

LogoutUserKeepsSocket(user) == [user EXCEPT !.online = FALSE]

\* logout: user.online = false; user.socketId = null
LogoutUser(user) == [user EXCEPT !.online = FALSE, !.socketId = NoSocket]

\* variant: the conversation is created but the message is not pushed
StoreMessageReplaces(store, senderId, recipientId, messageData) ==
  MapSet(store, getConversationId(senderId, recipientId), <<messageData>>)

StoreMessageNoPush(store, senderId, recipientId, messageData) ==
  LET conversationId == getConversationId(senderId, recipientId)
  IN IF conversationId \in DOMAIN store THEN store
     ELSE MapSet(store, conversationId, <<>>)

\* send-message: create the conversation when absent, then push
StoreMessage(store, senderId, recipientId, messageData) ==
  LET conversationId == getConversationId(senderId, recipientId)
      store1 == IF conversationId \in DOMAIN store THEN store
                ELSE MapSet(store, conversationId, <<>>)
  IN [store1 EXCEPT ![conversationId] = Append(@, messageData)]

\* send-message: the message object
MessageData(n, senderId, sender, recipientId, recipient, message) ==
  [id |-> GenMsgId(n), senderId |-> senderId, senderName |-> sender.username,
   recipientId |-> recipientId, recipientName |-> recipient.username,
   message |-> Trim(message)]

\* variant: the recipient is sent the body only
DeliverBodyToRecipient(conn, recipient, messageData) ==
  IF recipient.online /\ recipient.socketId # NoSocket
    THEN <<IoToEmit(conn, recipient.socketId, "receive-message",
                    [EmptyData EXCEPT !.msg = [NoMsg EXCEPT !.message = messageData.message]])>>
    ELSE <<>>

\* send-message: "Send to recipient if online"
DeliverToRecipient(conn, recipient, messageData) ==
  IF recipient.online /\ recipient.socketId # NoSocket
    THEN <<IoToEmit(conn, recipient.socketId, "receive-message",
                    [EmptyData EXCEPT !.msg = messageData])>>
    ELSE <<>>

\* send-message: "Send confirmation back to sender"
ConfirmToSender(s, messageData) ==
  <<SocketEmit(s, "message-sent", [EmptyData EXCEPT !.msg = messageData])>>

\* user-login: socket.emit("error", { message: "User not found" })
UserNotFoundError(s) ==
  <<SocketEmit(s, "error", [EmptyData EXCEPT !.text = "User not found"])>>

\* variant: the error is sent with io.emit
NotAuthenticatedErrorToAll(s) ==
  <<IoEmit(sockets, "error", [EmptyData EXCEPT !.text = "Not authenticated"])>>

\* send-message: socket.emit("error", { message: "Not authenticated" })
NotAuthenticatedError(s) ==
  <<SocketEmit(s, "error", [EmptyData EXCEPT !.text = "Not authenticated"])>>

\* variant: the error is sent with io.emit
RecipientNotFoundErrorToAll(s) ==
  <<IoEmit(sockets, "error", [EmptyData EXCEPT !.text = "Recipient not found"])>>

\* send-message: socket.emit("error", { message: "Recipient not found" })
RecipientNotFoundError(s) ==
  <<SocketEmit(s, "error", [EmptyData EXCEPT !.text = "Recipient not found"])>>

(* ---------------------------- REST ------------------------------------- *)
RegisterRejects(username) == username = <<>> \/ Len(Trim(username)) < 2

RegisterTaken(username) ==
  \E u \in DOMAIN users : ToLowerCase(users[u].username) = ToLowerCase(username)

\* POST /api/register
Register(username) ==
  LET n == Len(userOrder) + 1
      userId == GenUserId(Now, RandomTrace[n]) IN
  /\ UNCHANGED <<connections, messages, sockets, nextSocket, returned, thrown>>
  /\ IF RegisterRejects(username)
       THEN /\ out' = <<Emission("response", {},
                         [EmptyData EXCEPT !.text = "Username must be at least 2 characters long"])>>
            /\ UNCHANGED <<users, userOrder>>
       ELSE IF RegisterTaken(username)
         THEN /\ out' = <<Emission("response", {},
                           [EmptyData EXCEPT !.text = "Username already taken"])>>
              /\ UNCHANGED <<users, userOrder>>
         ELSE /\ n <= Len(RandomTrace)
              /\ users' = MapSet(users, userId,
                            [username |-> Trim(username), socketId |-> NoSocket, online |-> FALSE])
              /\ userOrder' = Append(userOrder, userId)
              /\ out' = <<Emission("response", {},
                           [EmptyData EXCEPT !.userId = userId, !.username = Trim(username),
                                             !.text = "Registration successful"])>>

(* ---------------------------- socket events ---------------------------- *)
\* io.on("connection"): a client connects with a socket id never used before
Connection ==
  /\ nextSocket <= MaxSockets
  /\ sockets' = sockets \cup {nextSocket}
  /\ nextSocket' = nextSocket + 1
  /\ out' = <<>>
  /\ UNCHANGED <<users, userOrder, connections, messages, returned, thrown>>

\* variant: a failed login drops the binding of the socket
\* variant: a login on a bound socket logs the previous user out
UserLoginReleasesPrevious(s, userId) ==
  /\ s \in sockets
  /\ UNCHANGED <<userOrder, messages, sockets, nextSocket, returned, thrown>>
  /\ IF userId \notin DOMAIN users
       THEN /\ out' = UserNotFoundError(s)
            /\ UNCHANGED <<users, connections>>
       ELSE LET released == IF s \in DOMAIN connections /\ connections[s] # userId
                              THEN MapSet(users, connections[s], LogoutUser(users[connections[s]]))
                              ELSE users
                user == LoginUser(users[userId], s)
                users1 == MapSet(released, userId, user)
                data == [EmptyData EXCEPT !.userId = userId, !.username = user.username]
            IN /\ users' = users1
               /\ connections' = MapSet(connections, s, userId)
               /\ out' = <<SocketEmit(s, "login-success", data),
                           IoEmit(sockets, "users-update",
                                  [EmptyData EXCEPT !.users = getOnlineUsers(users1, Null)]),
                           BroadcastEmit(sockets, s, "user-online", data)>>

UserLoginDropsBinding(s, userId) ==
  /\ s \in sockets
  /\ UNCHANGED <<userOrder, messages, sockets, nextSocket, returned, thrown>>
  /\ IF userId \notin DOMAIN users
       THEN /\ out' = UserNotFoundError(s)
            /\ connections' = MapDelete(connections, s)
            /\ UNCHANGED users
       ELSE LET user == LoginUser(users[userId], s)
                users1 == MapSet(users, userId, user)
                data == [EmptyData EXCEPT !.userId = userId, !.username = user.username]
            IN /\ users' = users1
               /\ connections' = MapSet(connections, s, userId)
               /\ out' = <<SocketEmit(s, "login-success", data),
                           IoEmit(sockets, "users-update",
                                  [EmptyData EXCEPT !.users = getOnlineUsers(users1, Null)]),
                           BroadcastEmit(sockets, s, "user-online", data)>>

\* socket.on("user-login")
UserLogin(s, userId) ==
  /\ s \in sockets
  /\ UNCHANGED <<userOrder, messages, sockets, nextSocket, returned, thrown>>
  /\ IF userId \notin DOMAIN users
       THEN /\ out' = UserNotFoundError(s)
            /\ UNCHANGED <<users, connections>>
       ELSE LET user == LoginUser(users[userId], s)
                users1 == MapSet(users, userId, user)
                data == [EmptyData EXCEPT !.userId = userId, !.username = user.username]
            IN /\ users' = users1
               /\ connections' = MapSet(connections, s, userId)
               /\ out' = <<SocketEmit(s, "login-success", data),
                           IoEmit(sockets, "users-update",
                                  [EmptyData EXCEPT !.users = getOnlineUsers(users1, Null)]),
                           BroadcastEmit(sockets, s, "user-online", data)>>

\* socket.on("get-chat-history")
GetChatHistory(s, otherUserId) ==
  /\ s \in sockets
  /\ UNCHANGED <<users, userOrder, connections, messages, sockets, nextSocket, returned, thrown>>
  /\ IF s \notin DOMAIN connections
       THEN out' = <<>>
       ELSE LET userId == connections[s]
                history == getChatHistory(userId, otherUserId)
            IN out' = <<SocketEmit(s, "chat-history",
                          [EmptyData EXCEPT !.userId = otherUserId, !.messages = history])>>

\* socket.on("send-message")
SendMessageUpTo(cap, s, recipientId, message) ==
  /\ s \in sockets
  /\ UNCHANGED <<users, userOrder, connections, sockets, nextSocket, returned>>
  /\ IF s \notin DOMAIN connections
       THEN /\ out' = NotAuthenticatedError(s)
            /\ UNCHANGED <<messages, thrown>>
       ELSE IF recipientId \notin DOMAIN users
         THEN /\ out' = RecipientNotFoundError(s)
              /\ UNCHANGED <<messages, thrown>>
         ELSE IF ~IsString(message)
           \* message.trim() of a value that is no string
           THEN /\ thrown' = TypeError
                /\ out' = <<>>
                /\ UNCHANGED messages
           ELSE LET senderId == connections[s]
                    sender == users[senderId]
                    recipient == users[recipientId]
                    messageData == MessageData(totalMessages + 1, senderId, sender,
                                               recipientId, recipient, message)
                IN /\ totalMessages < cap
                   /\ messages' = StoreMessage(messages, senderId, recipientId, messageData)
                   /\ out' = DeliverToRecipient(sockets, recipient, messageData)
                               \o ConfirmToSender(s, messageData)
                   /\ UNCHANGED thrown

\* socket.on("send-message"), the store capped at MaxMsgs messages
SendMessage(s, recipientId, message) == SendMessageUpTo(MaxMsgs, s, recipientId, message)

TypingOpensConversation(s, recipientId, isTyping) ==
  /\ s \in sockets
  /\ UNCHANGED <<users, userOrder, connections, sockets, nextSocket, returned, thrown>>
  /\ IF s \notin DOMAIN connections
       THEN out' = <<>> /\ UNCHANGED messages
       ELSE LET senderId == connections[s] IN
            /\ messages' = MapSet(messages, getConversationId(senderId, recipientId), <<>>)
            /\ IF recipientId \in DOMAIN users /\ users[recipientId].online
                    /\ users[recipientId].socketId # NoSocket
                 THEN out' = <<IoToEmit(sockets, users[recipientId].socketId, "user-typing",
                                 [EmptyData EXCEPT !.userId = senderId, !.isTyping = isTyping])>>
                 ELSE out' = <<>>

\* socket.on("typing")
Typing(s, recipientId, isTyping) ==
  /\ s \in sockets
  /\ UNCHANGED <<users, userOrder, connections, messages, sockets, nextSocket, returned, thrown>>
  /\ IF s \notin DOMAIN connections
       THEN out' = <<>>
       ELSE LET senderId == connections[s] IN
            IF recipientId \in DOMAIN users /\ users[recipientId].online
                 /\ users[recipientId].socketId # NoSocket
              THEN out' = <<IoToEmit(sockets, users[recipientId].socketId, "user-typing",
                              [EmptyData EXCEPT !.userId = senderId, !.isTyping = isTyping])>>
              ELSE out' = <<>>

\* socket.on("disconnect"): the socket has left the server when the handler runs
Disconnect(s) ==
  /\ s \in sockets
  /\ sockets' = sockets \ {s}
  /\ UNCHANGED <<userOrder, messages, nextSocket, returned, thrown>>
  /\ connections' = MapDelete(connections, s)
  /\ IF s \in DOMAIN connections /\ connections[s] \in DOMAIN users
       THEN LET userId == connections[s]
                user == DisconnectUser(users[userId])
                users1 == MapSet(users, userId, user)
            IN /\ users' = users1
               /\ out' = <<BroadcastEmit(sockets', s, "user-offline",
                             [EmptyData EXCEPT !.userId = userId, !.username = user.username]),
                           IoEmit(sockets', "users-update",
                             [EmptyData EXCEPT !.users = getOnlineUsers(users1, Null)])>>
       ELSE /\ out' = <<>>
            /\ UNCHANGED users

LogoutAlwaysUpdates(s) ==
  /\ s \in sockets
  /\ UNCHANGED <<userOrder, messages, sockets, nextSocket, returned, thrown>>
  /\ connections' = MapDelete(connections, s)
  /\ IF s \in DOMAIN connections /\ connections[s] \in DOMAIN users
       THEN LET userId == connections[s]
                user == LogoutUser(users[userId])
                users1 == MapSet(users, userId, user)
            IN /\ users' = users1
               /\ out' = <<BroadcastEmit(sockets, s, "user-offline",
                             [EmptyData EXCEPT !.userId = userId, !.username = user.username]),
                           IoEmit(sockets, "users-update",
                             [EmptyData EXCEPT !.users = getOnlineUsers(users1, Null)])>>
       ELSE /\ out' = <<IoEmit(sockets, "users-update",
                             [EmptyData EXCEPT !.users = getOnlineUsers(users, Null)])>>
            /\ UNCHANGED users

\* socket.on("logout")
Logout(s) ==
  /\ s \in sockets
  /\ UNCHANGED <<userOrder, messages, sockets, nextSocket, returned, thrown>>
  /\ connections' = MapDelete(connections, s)
  /\ IF s \in DOMAIN connections /\ connections[s] \in DOMAIN users
       THEN LET userId == connections[s]
                user == LogoutUser(users[userId])
                users1 == MapSet(users, userId, user)
            IN /\ users' = users1
               /\ out' = <<BroadcastEmit(sockets, s, "user-offline",
                             [EmptyData EXCEPT !.userId = userId, !.username = user.username]),
                           IoEmit(sockets, "users-update",
                             [EmptyData EXCEPT !.users = getOnlineUsers(users1, Null)])>>
       ELSE /\ out' = <<>>
            /\ UNCHANGED users

\* the events a handler emitted are handed to the transport before the next
\* request or event is handled (one event loop, handlers run to completion)
Flush ==
  /\ out # <<>>
  /\ out' = <<>>
  /\ UNCHANGED <<users, userOrder, connections, messages, sockets, nextSocket, returned, thrown>>

Idle == out = <<>>

Next ==
  \/ Flush /\ UNCHANGED page
  \/ Idle /\ UNCHANGED page /\ \E username \in Usernames : Register(username)
  \/ Idle /\ UNCHANGED page /\ Connection
  \/ Idle /\ UNCHANGED page /\ \E s \in sockets, userId \in ClientIds : UserLogin(s, userId)
  \/ Idle /\ UNCHANGED page /\ \E s \in sockets, otherUserId \in ClientIds : GetChatHistory(s, otherUserId)
  \/ Idle /\ UNCHANGED page /\ \E s \in sockets, recipientId \in ClientIds, message \in Bodies :
       SendMessage(s, recipientId, message)
  \/ Idle /\ UNCHANGED page /\ \E s \in sockets, recipientId \in ClientIds, isTyping \in BOOLEAN :
       Typing(s, recipientId, isTyping)
  \/ Idle /\ UNCHANGED page /\ \E s \in sockets : Disconnect(s)
  \/ Idle /\ UNCHANGED page /\ \E s \in sockets : Logout(s)

Spec == Init /\ [][Next]_vars

TypeOK ==
  /\ DOMAIN users \subseteq IdPool
  /\ DOMAIN users = {userOrder[i] : i \in 1..Len(userOrder)}
  /\ DOMAIN connections \subseteq sockets
  /\ sockets \subseteq 1..MaxSockets

(* ---------------------------- observations ----------------------------- *)
\* the emissions of the last handler that carry the given event
Emitted(o, event) == {i \in 1..Len(o) : o[i].event = event}

Range(seq) == {seq[i] : i \in 1..Len(seq)}

Bound(s) == s \in DOMAIN connections

\* strings a client can pass where a user id is expected, besides ClientIds:
\* "", "z_user_1_a", "user_1_a_user_1_z"
ProbeIds ==
  ClientIds \cup {<<>>,
                  <<122, 95>> \o GenUserId(Now, <<97>>),
                  GenUserId(Now, <<97>>) \o <<95>> \o GenUserId(Now, <<122>>)}

(* C1: every receive-message that send-message emits is delivered only to  *)
(* sockets whose current binding is the message's recipientId.             *)
C1_DeliveredOnlyToRecipient ==
  \A i \in Emitted(out, "receive-message") :
    \A c \in out[i].to : Bound(c) /\ connections[c] = out[i].data.msg.recipientId

(* C2: a registered user is online exactly when some socket is bound to    *)
(* that user in connections.                                               *)
C2_OnlineIffBound ==
  \A u \in DOMAIN users :
    users[u].online <=> (\E c \in DOMAIN connections : connections[c] = u)

(* C3: for every registered user, online equals (socketId is not null),    *)
(* after every register, user-login, logout and disconnect.                *)
C3_OnlineIffSocketId ==
  \A u \in DOMAIN users : users[u].online = (users[u].socketId # NoSocket)

\* a user went offline again (logout or disconnect emitted user-offline) while
\* another user is still online
C3_Witness ==
  /\ Emitted(out, "user-offline") # {}
  /\ \E u \in DOMAIN users : ~users[u].online /\ users[u].socketId = NoSocket
  /\ \E u \in DOMAIN users : users[u].online /\ users[u].socketId # NoSocket

\* the users of every message of a sequence are exactly A and B
OnlyBetween(history, A, B) ==
  \A m \in Range(history) : {m.senderId, m.recipientId} = {A, B}

(* C4: every message stored under the key getConversationId(A, B), and     *)
(* every message getChatHistory returns or get-chat-history emits for the  *)
(* pair, has {senderId, recipientId} = {A, B}; A is a registered user (the *)
(* only first argument the server passes), B any string a client can send. *)
C4_HistoryOfThePair ==
  /\ \A A \in DOMAIN users, B \in ProbeIds :
       LET conversationId == getConversationId(A, B)
       IN conversationId \in DOMAIN messages
            => /\ OnlyBetween(messages[conversationId], A, B)
               /\ OnlyBetween(getChatHistory(A, B), A, B)
  /\ \A i \in Emitted(out, "chat-history") :
       \A c \in out[i].to :
         Bound(c) /\ OnlyBetween(out[i].data.messages, connections[c], out[i].data.userId)

\* a stored message between two different users was returned to one of them,
\* and the other conversations of both users are empty
C4_Witness ==
  \E i \in Emitted(out, "chat-history") :
    \E c \in out[i].to :
      /\ out[i].data.messages # <<>>
      /\ out[i].data.userId # connections[c]
      /\ getChatHistory(connections[c], connections[c]) = <<>>
      /\ getChatHistory(out[i].data.userId, out[i].data.userId) = <<>>

(* C5: getChatHistory(A, B) and getChatHistory(B, A) return the identical  *)
(* sequence, for all identifiers A and B and every reachable store.        *)
C5_HistorySymmetric ==
  \A A \in ClientIds \cup {<<>>}, B \in ClientIds \cup {<<>>} :
    A # B => getChatHistory(A, B) = getChatHistory(B, A)

\* a message was stored whose sender sorts after its recipient
C5_Witness ==
  \E k \in DOMAIN messages :
    \E m \in Range(messages[k]) :
      /\ StrLess(m.recipientId, m.senderId)
      /\ getChatHistory(m.senderId, m.recipientId) # <<>>

(* C6: send-message from a bound socket to a registered recipient whose    *)
(* online flag is false emits message-sent to the sender's socket, emits   *)
(* no receive-message, and the message is in getChatHistory(sender,        *)
(* recipient) right after the send.                                        *)
C6_SendToOffline ==
  [][\A s \in sockets, recipientId \in ClientIds, message \in Bodies :
       (/\ Bound(s)
        /\ recipientId \in DOMAIN users
        /\ ~users[recipientId].online
        /\ SendMessage(s, recipientId, message))
       => /\ Emitted(out', "receive-message") = {}
          /\ \E i \in Emitted(out', "message-sent") :
               /\ out'[i].to = {s}
               /\ out'[i].data.msg \in
                    Range(getChatHistoryIn(messages', connections[s], recipientId, DefaultLimit))]_vars

\* a message was confirmed to its sender, delivered to nobody, and its
\* recipient is offline
C6_Witness ==
  /\ Len(out) = 1
  /\ out[1].event = "message-sent"
  /\ ~users[out[1].data.msg.recipientId].online
  /\ out[1].data.msg \in Range(getChatHistory(out[1].data.msg.senderId, out[1].data.msg.recipientId))

(* C7: for every successful send-message the message appended to the       *)
(* store, the payload of message-sent and the payload of receive-message   *)
(* are the same message, and message-sent goes to the sender whether or    *)
(* not the recipient is online.                                            *)
C7_SameMessageEverywhere ==
  [][\A s \in sockets, recipientId \in ClientIds, message \in Bodies :
       (Bound(s) /\ recipientId \in DOMAIN users /\ SendMessage(s, recipientId, message))
       => LET conversationId == getConversationId(connections[s], recipientId)
              stored == messages'[conversationId][Len(messages'[conversationId])]
          IN /\ totalMessages' = totalMessages + 1
             /\ stored.senderId = connections[s]
             /\ stored.recipientId = recipientId
             /\ stored.message = Trim(message)
             /\ Cardinality(Emitted(out', "message-sent")) = 1
             /\ \A i \in Emitted(out', "message-sent") :
                  out'[i].to = {s} /\ out'[i].data.msg = stored
             /\ users[recipientId].online => Emitted(out', "receive-message") # {}
             /\ \A i \in Emitted(out', "receive-message") : out'[i].data.msg = stored]_vars

\* a message went to an online recipient on another socket and to its sender
C7_Witness ==
  \E i \in Emitted(out, "receive-message"), j \in Emitted(out, "message-sent") :
    /\ out[i].to # {}
    /\ out[i].to # out[j].to
    /\ out[i].data.msg = out[j].data.msg
    /\ out[j].data.msg \in Range(getChatHistory(out[j].data.msg.senderId, out[j].data.msg.recipientId))

(* C8: send-message from a bound socket with a recipientId that is not in  *)
(* the registry emits exactly one event, an error to the sending socket    *)
(* only, and leaves the message store, its total count, the registry and   *)
(* the bindings unchanged.                                                 *)
C8_UnknownRecipient ==
  [][\A s \in sockets, recipientId \in ClientIds, message \in Bodies :
       (Bound(s) /\ recipientId \notin DOMAIN users /\ SendMessage(s, recipientId, message))
       => /\ Len(out') = 1
          /\ out'[1].event = "error"
          /\ out'[1].to = {s}
          /\ totalMessages' = totalMessages
          /\ UNCHANGED <<messages, users, userOrder, connections>>]_vars

\* the recipient-not-found error was the only emission, with another socket
\* connected and a message already stored
C8_Witness ==
  /\ Len(out) = 1
  /\ out[1].event = "error"
  /\ out[1].data.text = "Recipient not found"
  /\ \E c \in sockets : c \notin out[1].to
  /\ \A c \in out[1].to : Bound(c)
  /\ totalMessages > 0

(* C9: send-message on a socket with no binding emits an error to that     *)
(* socket only, stores and delivers no message, and leaves users,          *)
(* connections and messages unchanged.                                     *)
C9_Unauthenticated ==
  [][\A s \in sockets, recipientId \in ClientIds, message \in Bodies :
       (~Bound(s) /\ SendMessage(s, recipientId, message))
       => /\ Len(out') = 1
          /\ out'[1].event = "error"
          /\ out'[1].to = {s}
          /\ UNCHANGED <<messages, users, userOrder, connections>>]_vars

\* the not-authenticated error went to an unbound socket while another
\* socket is bound to an online user
C9_Witness ==
  /\ Len(out) = 1
  /\ out[1].event = "error"
  /\ out[1].data.text = "Not authenticated"
  /\ \A c \in out[1].to : ~Bound(c)
  /\ \E c \in sockets : Bound(c) /\ users[connections[c]].online

(* C10: user-login with a userId that is not in the registry emits an      *)
(* error to the requesting socket only, no login-success, users-update or  *)
(* user-online, and leaves users, connections (the socket's prior binding  *)
(* included) and messages unchanged.                                       *)
C10_LoginUnknownUser ==
  [][\A s \in sockets, userId \in ClientIds :
       (userId \notin DOMAIN users /\ UserLogin(s, userId))
       => /\ Len(out') = 1
          /\ out'[1].event = "error"
          /\ out'[1].to = {s}
          /\ UNCHANGED <<messages, users, userOrder, connections>>]_vars

\* the user-not-found error went to a socket that keeps its prior binding,
\* with another socket connected
C10_Witness ==
  /\ Len(out) = 1
  /\ out[1].event = "error"
  /\ out[1].data.text = "User not found"
  /\ \A c \in out[1].to : Bound(c) /\ users[connections[c]].online
  /\ \E c \in sockets : c \notin out[1].to

(* C11: user-login with a registered userId binds the channel to the user, *)
(* marks the user online with that channel as its handle, emits            *)
(* login-success to the requester only, users-update to every connected    *)
(* channel and user-online to every connected channel but the requester.   *)
C11_LoginSuccess ==
  [][\A s \in sockets, userId \in ClientIds :
       (userId \in DOMAIN users /\ UserLogin(s, userId)) =>
         /\ s \in DOMAIN connections' /\ connections'[s] = userId
         /\ users'[userId].online /\ users'[userId].socketId = s
         /\ Len(out') = 3
         /\ \E i \in Emitted(out', "login-success") :
              out'[i].to = {s} /\ out'[i].data.userId = userId
                /\ out'[i].data.username = users[userId].username
         /\ \E i \in Emitted(out', "users-update") :
              out'[i].to = sockets /\ out'[i].data.users = getOnlineUsers(users', Null)
         /\ \E i \in Emitted(out', "user-online") :
              out'[i].to = sockets \ {s} /\ out'[i].data.userId = userId]_vars

\* a login succeeded while another channel was connected and unauthenticated:
\* that channel is sent users-update and user-online, the requester is sent
\* login-success and is the user's handle
C11_Witness ==
  /\ Len(out) = 3
  /\ \E i \in Emitted(out, "login-success") :
       \E s \in out[i].to :
         /\ Bound(s) /\ users[connections[s]].socketId = s
         /\ \E j \in Emitted(out, "user-online") : s \notin out[j].to /\ out[j].to # {}
  /\ \E i \in Emitted(out, "users-update") :
       out[i].to = sockets /\ \E c \in out[i].to : ~Bound(c)

(* C12: logout or disconnect on a channel bound to user u leaves u offline *)
(* with a null handle and the channel unbound, and emits user-offline for  *)
(* u to every channel except the requesting one and users-update to all    *)
(* connected channels.                                                     *)
C12_LogoutBound ==
  [][\A s \in sockets :
       (Bound(s) /\ (Logout(s) \/ Disconnect(s))) =>
         LET u == connections[s] IN
           /\ ~users'[u].online /\ users'[u].socketId = NoSocket
           /\ s \notin DOMAIN connections'
           /\ Len(out') = 2
           /\ \E i \in Emitted(out', "user-offline") :
                out'[i].to = sockets \ {s} /\ out'[i].data.userId = u
           /\ \E i \in Emitted(out', "users-update") :
                out'[i].to = sockets' /\ out'[i].data.users = getOnlineUsers(users', Null)]_vars

\* a bound channel has disconnected: the user is offline, and user-offline and
\* users-update went to the same, remaining, channels
C12_Witness ==
  /\ Len(out) = 2
  /\ \E i \in Emitted(out, "user-offline") :
       /\ out[i].to # {} /\ out[i].to = sockets
       /\ ~users[out[i].data.userId].online
       /\ users[out[i].data.userId].socketId = NoSocket
       /\ Cardinality(sockets) < nextSocket - 1

(* C13: logout or disconnect on a channel without a binding emits nothing  *)
(* and changes neither users nor connections nor messages; a step that     *)
(* emits user-offline emits it once and removes one binding, and only a    *)
(* successful login adds a binding, one at a time: user-offline is emitted *)
(* at most once per login.                                                 *)
C13_LogoutUnbound ==
  [][/\ \A s \in sockets :
          (~Bound(s) /\ (Logout(s) \/ Disconnect(s))) =>
            out' = <<>> /\ UNCHANGED <<users, userOrder, connections, messages>>
     /\ Emitted(out', "user-offline") # {} =>
          /\ Cardinality(Emitted(out', "user-offline")) = 1
          /\ Cardinality(DOMAIN connections') = Cardinality(DOMAIN connections) - 1
     /\ Cardinality(DOMAIN connections') > Cardinality(DOMAIN connections) =>
          /\ Cardinality(DOMAIN connections') = Cardinality(DOMAIN connections) + 1
          /\ Emitted(out', "login-success") # {}]_vars

\* a channel was closed although nobody has registered, so it never had a
\* binding: the disconnect emitted nothing, another channel is still connected
C13_Witness ==
  /\ DOMAIN users = {} /\ connections = << >> /\ messages = << >>
  /\ out = <<>>
  /\ sockets # {} /\ Cardinality(sockets) < nextSocket - 1

\* users, connections and messages after the disconnect handler ran on s
DisconnectOutcome(s) ==
  <<IF s \in DOMAIN connections /\ connections[s] \in DOMAIN users
      THEN MapSet(users, connections[s], DisconnectUser(users[connections[s]]))
      ELSE users,
    MapDelete(connections, s), messages>>

\* users, connections and messages after the logout handler ran on s
LogoutOutcome(s) ==
  <<IF s \in DOMAIN connections /\ connections[s] \in DOMAIN users
      THEN MapSet(users, connections[s], LogoutUser(users[connections[s]]))
      ELSE users,
    MapDelete(connections, s), messages>>

(* C14: for every channel c, handling disconnect on c and handling logout  *)
(* on c give the same users, connections and messages.                     *)
C14_DisconnectAsLogout ==
  [][\A s \in sockets :
       /\ Disconnect(s) => /\ <<users', connections', messages'>> = DisconnectOutcome(s)
                           /\ <<users', connections', messages'>> = LogoutOutcome(s)
       /\ Logout(s) => /\ <<users', connections', messages'>> = LogoutOutcome(s)
                       /\ <<users', connections', messages'>> = DisconnectOutcome(s)]_vars

\* a channel bound to a user who had received a message logged out or
\* disconnected while another user stayed online
C14_Witness ==
  /\ Emitted(out, "user-offline") # {}
  /\ totalMessages > 0
  /\ \E u \in DOMAIN users : users[u].online
  /\ \E u \in DOMAIN users : ~users[u].online

(* C15: a typing event leaves the message store, the registry and the      *)
(* bindings unchanged; getChatHistory of every pair is the same before and *)
(* after.                                                                  *)
C15_TypingFrame ==
  [][\A s \in sockets, recipientId \in ClientIds, isTyping \in BOOLEAN :
       Typing(s, recipientId, isTyping) =>
         /\ UNCHANGED <<users, userOrder, connections, messages>>
         /\ \A A \in ClientIds, B \in ClientIds :
              getChatHistoryIn(messages', A, B, DefaultLimit) = getChatHistory(A, B)]_vars

\* a typing event was relayed between two users whose stored conversation has
\* more messages than a history reply carries
C15_Witness ==
  /\ Len(out) = 1 /\ out[1].event = "user-typing" /\ out[1].to # {}
  /\ \E c \in out[1].to :
       /\ Bound(c) /\ connections[c] # out[1].data.userId
       /\ Len(getChatHistory(out[1].data.userId, connections[c])) = DefaultLimit
  /\ totalMessages > DefaultLimit

(* C16: a typing event emits at most one event; it is user-typing with the *)
(* sender's bound user id, sent only to the recipient's current handle,    *)
(* and only when the sender's channel is bound and the recipient exists    *)
(* and is online; otherwise nothing is emitted.                            *)
C16_TypingUnicast ==
  [][\A s \in sockets, recipientId \in ClientIds, isTyping \in BOOLEAN :
       Typing(s, recipientId, isTyping) =>
         IF Bound(s) /\ recipientId \in DOMAIN users /\ users[recipientId].online
           THEN /\ Len(out') = 1
                /\ out'[1].event = "user-typing"
                /\ out'[1].data.userId = connections[s]
                /\ out'[1].data.isTyping = isTyping
                /\ out'[1].to \subseteq {users[recipientId].socketId}
           ELSE out' = <<>>]_vars

\* user-typing reached one channel, the recipient's handle, while a third
\* channel was connected and got nothing
C16_Witness ==
  /\ Len(out) = 1 /\ out[1].event = "user-typing"
  /\ Cardinality(out[1].to) = 1
  /\ \E c \in out[1].to : Bound(c) /\ users[connections[c]].socketId = c
  /\ \E c \in sockets : c \notin out[1].to

(* ---------------------------- long conversations ----------------------- *)
\* The states of the server after two users registered ("Al", then "Bob"),
\* exchanged n messages in turn, and the first one stayed logged in on socket 1
\* while the second one is either logged in on socket 2 or has logged out
\* there (socket 2 is connected and unbound).
HistUserIds == <<GenUserId(Now, RandomTrace[1]), GenUserId(Now, RandomTrace[2])>>

HistUsers(loggedIn) ==
  LET first == [username |-> <<65, 108>>, socketId |-> NoSocket, online |-> FALSE]
      second == [username |-> <<66, 111, 98>>, socketId |-> NoSocket, online |-> FALSE]
  IN MapSet(MapSet([u \in {} |-> 0], HistUserIds[1], LoginUser(first, 1)),
            HistUserIds[2], IF loggedIn THEN LoginUser(second, 2) ELSE LogoutUser(second))

HistConnections(loggedIn) ==
  LET first == MapSet([s \in {} |-> 0], 1, HistUserIds[1])
  IN IF loggedIn THEN MapSet(first, 2, HistUserIds[2]) ELSE first

\* the n-th message sent, senders alternating
HistMessage(n) ==
  LET senderId == HistUserIds[2 - (n % 2)]
      recipientId == HistUserIds[1 + (n % 2)]
      body == CHOOSE b \in Bodies : TRUE
  IN MessageData(n, senderId, HistUsers(TRUE)[senderId],
                 recipientId, HistUsers(TRUE)[recipientId], body)

\* the store after the first n send-message events: the pair's array under
\* its conversation id, in push order
HistStore(n) ==
  IF n = 0 THEN [k \in {} |-> 0]
  ELSE MapSet([k \in {} |-> 0], getConversationId(HistUserIds[1], HistUserIds[2]),
              [i \in 1..n |-> HistMessage(i)])

InitHist ==
  /\ \E loggedIn \in BOOLEAN :
       users = HistUsers(loggedIn) /\ connections = HistConnections(loggedIn)
  /\ userOrder = HistUserIds
  /\ \E n \in 0..MaxHistory : messages = HistStore(n)
  /\ sockets = {1, 2}
  /\ nextSocket = 3
  /\ out = <<>>
  /\ returned = <<>>
  /\ thrown = NoException
  /\ page = InitialPage

\* the limit arguments of a direct call: around zero and around the default
Limits == (-2..2) \cup {DefaultLimit - 1, DefaultLimit, DefaultLimit + 1}

\* getChatHistory(user1, user2, limit)
CallGetChatHistory(user1, user2, limit) ==
  /\ returned' = getChatHistoryIn(messages, user1, user2, limit)
  /\ UNCHANGED <<users, userOrder, connections, messages, sockets, nextSocket, out, thrown>>

\* getChatHistory(user1, user2): limit takes its default
CallGetChatHistoryDefault(user1, user2) ==
  /\ returned' = getChatHistory(user1, user2)
  /\ UNCHANGED <<users, userOrder, connections, messages, sockets, nextSocket, out, thrown>>

NextHist ==
  \/ Flush /\ UNCHANGED page
  \/ Idle /\ UNCHANGED page /\ \E s \in sockets, otherUserId \in ClientIds : GetChatHistory(s, otherUserId)
  \/ Idle /\ UNCHANGED page /\ \E user1 \in ClientIds, user2 \in ClientIds, limit \in Limits :
       CallGetChatHistory(user1, user2, limit)
  \/ Idle /\ UNCHANGED page /\ \E user1 \in ClientIds, user2 \in ClientIds :
       CallGetChatHistoryDefault(user1, user2)
  \/ Idle /\ UNCHANGED page /\ \E s \in sockets, recipientId \in ClientIds, isTyping \in BOOLEAN :
       Typing(s, recipientId, isTyping)

SpecHist == InitHist /\ [][NextHist]_vars

\* the stored messages exchanged between u and v, in the order they were sent
Conversation(u, v) ==
  LET Between(m) == {m.senderId, m.recipientId} = {u, v}
      keys == {k \in DOMAIN messages :
                 \E i \in 1..Len(messages[k]) : Between(messages[k][i])}
  IN IF keys = {} THEN <<>>
     ELSE SelectSeq(messages[CHOOSE k \in keys : TRUE], Between)

\* the last min(k, n) elements of an n-element sequence
LastN(seq, k) ==
  SubSeq(seq, Len(seq) - (IF k < Len(seq) THEN k ELSE Len(seq)) + 1, Len(seq))

(* C17: get-chat-history on a channel bound to u emits exactly one         *)
(* chat-history, to the requester only, with the last 50 (or fewer)        *)
(* messages between u and otherUserId in send order, empty when            *)
(* otherUserId is unknown or there is no conversation; on an unbound       *)
(* channel it emits nothing; it changes no state.                          *)
C17_ChatHistoryReply ==
  [][\A s \in sockets, otherUserId \in ClientIds :
       GetChatHistory(s, otherUserId) =>
         /\ UNCHANGED <<users, userOrder, connections, messages, sockets>>
         /\ IF Bound(s)
              THEN /\ Len(out') = 1
                   /\ out'[1].event = "chat-history"
                   /\ out'[1].to = {s}
                   /\ out'[1].data.userId = otherUserId
                   /\ out'[1].data.messages =
                        LastN(Conversation(connections[s], otherUserId), DefaultLimit)
                   /\ otherUserId \notin DOMAIN users => out'[1].data.messages = <<>>
              ELSE out' = <<>>]_vars

\* a chat-history reply for a conversation of more than 50 messages: it
\* carries 50 of them, starting with the second message sent
C17_Witness ==
  /\ Len(out) = 1 /\ out[1].event = "chat-history"
  /\ totalMessages > DefaultLimit
  /\ Len(out[1].data.messages) = DefaultLimit
  /\ out[1].data.messages[1].id = GenMsgId(totalMessages - DefaultLimit + 1)

(* C18: getChatHistory(user1, user2, limit) returns the last min(limit, n) *)
(* messages of the pair's n-message conversation for every positive limit, *)
(* and for a missing, zero or negative limit what limit = 50 returns.      *)
C18_LimitSemantics ==
  [][/\ \A user1 \in ClientIds, user2 \in ClientIds, limit \in Limits :
          CallGetChatHistory(user1, user2, limit) =>
            returned' = LastN(Conversation(user1, user2),
                              IF limit > 0 THEN limit ELSE DefaultLimit)
     /\ \A user1 \in ClientIds, user2 \in ClientIds :
          CallGetChatHistoryDefault(user1, user2) =>
            returned' = LastN(Conversation(user1, user2), DefaultLimit)]_vars

(* ---------------------------- registration ---------------------------- *)
\* a name of n characters ("xx...x")
LongName(n) == [i \in 1..n |-> 120]

\* names a client can post: "Al", "al", "Al ", " AL", "b", " b ", "", and names
\* of 20 and of 21 characters
RegNames ==
  {<<65, 108>>, <<97, 108>>, <<65, 108, 32>>, <<32, 65, 76>>, <<98>>, <<32, 98, 32>>, <<>>,
   LongName(MaxNameLength), LongName(MaxNameLength + 1)}

NextRegister ==
  \/ Flush /\ UNCHANGED page
  \/ Idle /\ UNCHANGED page /\ \E username \in RegNames : Register(username)
  \/ Idle /\ UNCHANGED page /\ Connection
  \/ Idle /\ UNCHANGED page /\ \E s \in sockets, userId \in ClientIds : UserLogin(s, userId)

SpecRegister == Init /\ [][NextRegister]_vars

(* C19: whatever names are posted to /api/register, no two users of the    *)
(* registry have display names that are equal ignoring case, and a         *)
(* registration whose trimmed name equals an existing display name         *)
(* ignoring case is rejected as already taken.                             *)
C19_UniqueNames ==
  [][/\ \A u \in DOMAIN users', v \in DOMAIN users' :
          u # v => ToLowerCase(users'[u].username) # ToLowerCase(users'[v].username)
     /\ \A username \in RegNames :
          ((\E u \in DOMAIN users :
               ToLowerCase(users[u].username) = ToLowerCase(Trim(username)))
             /\ Register(username)) =>
            /\ UNCHANGED users
            /\ out'[1].data.text = "Username already taken"]_vars

(* C20: every user of the registry has a display name of 2 to 20           *)
(* characters: registration rejects a name whose trimmed length is below 2 *)
(* and never stores a name longer than 20 characters.                      *)
C20_NameLength ==
  \A u \in DOMAIN users :
    Len(users[u].username) >= 2 /\ Len(users[u].username) <= MaxNameLength

(* ---------------------------- any payload ----------------------------- *)
\* What a client can put in a payload besides what the contract asks for: an
\* id that is undefined; a body that is blank ("  "), undefined or a number.
PayloadIds == ClientIds \cup {Undefined}
PayloadBodies == Bodies \cup {<<Space, Space>>, Undefined, NumberValue}

\* the events whose handler destructures its payload
PayloadEvents == {"user-login", "get-chat-history", "send-message", "typing"}

\* an event sent without a payload object: ({ userId }) => ..., and the like,
\* destructure undefined
NoPayload(s, event) ==
  /\ s \in sockets
  /\ event \in PayloadEvents
  /\ thrown' = TypeError
  /\ out' = <<>>
  /\ UNCHANGED <<users, userOrder, connections, messages, sockets, nextSocket, returned>>

\* The server after two users registered, the first logged in on socket 1, the
\* second logged in on socket 2 or not, and up to MaxMsgs messages were sent.
InitPayload ==
  /\ \E loggedIn \in BOOLEAN :
       users = HistUsers(loggedIn) /\ connections = HistConnections(loggedIn)
  /\ userOrder = HistUserIds
  /\ \E n \in 0..MaxMsgs : messages = HistStore(n)
  /\ sockets = {1, 2}
  /\ nextSocket = 3
  /\ out = <<>>
  /\ returned = <<>>
  /\ thrown = NoException
  /\ page = InitialPage

\* an exception that escapes a handler ends the process
Running == thrown = NoException

NextPayload ==
  \/ Flush /\ UNCHANGED page
  \/ Idle /\ UNCHANGED page /\ Running /\ \E s \in sockets, userId \in PayloadIds : UserLogin(s, userId)
  \/ Idle /\ UNCHANGED page /\ Running /\ \E s \in sockets, otherUserId \in ClientIds :
       GetChatHistory(s, otherUserId)
  \/ Idle /\ UNCHANGED page /\ Running /\ \E s \in sockets, recipientId \in PayloadIds, message \in PayloadBodies :
       SendMessageUpTo(MaxMsgs + 1, s, recipientId, message)
  \/ Idle /\ UNCHANGED page /\ Running /\ \E s \in sockets, recipientId \in PayloadIds, isTyping \in BOOLEAN :
       Typing(s, recipientId, isTyping)
  \/ Idle /\ UNCHANGED page /\ Running /\ \E s \in sockets, event \in PayloadEvents : NoPayload(s, event)
  \/ Idle /\ UNCHANGED page /\ Running /\ \E s \in sockets : Disconnect(s)
  \/ Idle /\ UNCHANGED page /\ Running /\ \E s \in sockets : Logout(s)

SpecPayload == InitPayload /\ [][NextPayload]_vars

(* C21: whatever event and payload a client sends, the handler runs to     *)
(* completion: no exception escapes it, and what it has to report goes as  *)
(* an error event to the originating channel only.                         *)
C21_NoEscapingException ==
  /\ thrown = NoException
  /\ \A i \in Emitted(out, "error") : Cardinality(out[i].to) = 1

(* C22: every stored message has a body that is trimmed and not empty, and *)
(* so has every message that send-message delivers.                        *)
C22_BodiesNotEmpty ==
  /\ \A k \in DOMAIN messages : \A i \in 1..Len(messages[k]) :
       messages[k][i].message # <<>> /\ Trim(messages[k][i].message) = messages[k][i].message
  /\ \A i \in Emitted(out, "receive-message") \cup Emitted(out, "message-sent") :
       out[i].data.msg.message # <<>>

(* ---------------------------- bindings -------------------------------- *)
(* C23: when two channels have logged in as the same user u, both bindings *)
(* exist together, and a disconnect or logout on one of them marks u       *)
(* offline with a null handle while the other channel stays bound to u.    *)
C23_TwoBindings ==
  [][/\ \A c2 \in sockets, u \in ClientIds :
          (u \in DOMAIN users
             /\ (\E c1 \in DOMAIN connections : c1 # c2 /\ connections[c1] = u)
             /\ UserLogin(c2, u)) =>
            /\ c2 \in DOMAIN connections' /\ connections'[c2] = u
            /\ \A c1 \in DOMAIN connections :
                 connections[c1] = u => c1 \in DOMAIN connections' /\ connections'[c1] = u
     /\ \A c1 \in sockets :
          (Bound(c1) /\ (Logout(c1) \/ Disconnect(c1))) =>
            LET u == connections[c1] IN
              /\ ~users'[u].online /\ users'[u].socketId = NoSocket
              /\ \A c2 \in DOMAIN connections \ {c1} :
                   connections[c2] = u => c2 \in DOMAIN connections' /\ connections'[c2] = u]_vars

\* one of two channels bound to the same user has logged out or disconnected:
\* the user is offline with a null handle and the other channel is still bound
C23_Witness ==
  /\ Len(out) = 2
  /\ \E i \in Emitted(out, "user-offline") :
       LET u == out[i].data.userId IN
         /\ ~users[u].online /\ users[u].socketId = NoSocket
         /\ \E c \in DOMAIN connections : connections[c] = u

(* C24: a channel bound to user A that handles user-login for another      *)
(* registered user B is then bound to B, and A is left as it was, online   *)
(* with that channel as its handle; a later logout or disconnect of the    *)
(* channel marks only B offline.                                           *)
C24_Rebinding ==
  [][/\ \A s \in sockets, B \in ClientIds :
          (Bound(s) /\ B \in DOMAIN users /\ connections[s] # B /\ UserLogin(s, B)) =>
            /\ connections'[s] = B
            /\ users'[connections[s]] = users[connections[s]]
     /\ \A s \in sockets :
          (Bound(s) /\ (Logout(s) \/ Disconnect(s))) =>
            \A A \in DOMAIN users \ {connections[s]} : users'[A] = users[A]]_vars

\* a channel that logged in as A and then as B has logged out or disconnected:
\* B went offline, A is still online with that channel, now unbound, as handle
C24_Witness ==
  /\ Len(out) = 2
  /\ \E i \in Emitted(out, "user-offline") :
       \E A \in DOMAIN users \ {out[i].data.userId} :
         /\ users[A].online /\ users[A].socketId \notin DOMAIN connections
         /\ ~users[out[i].data.userId].online

(* C25: every users-update carries exactly the users whose online flag is  *)
(* true after the event's own mutation, each once, in registration order.  *)
C25_UsersUpdateSnapshot ==
  \A i \in Emitted(out, "users-update") :
    LET list == out[i].data.users
        Pos(u) == CHOOSE n \in 1..Len(userOrder) : userOrder[n] = u
    IN /\ {list[j].userId : j \in 1..Len(list)} = {u \in DOMAIN users : users[u].online}
       /\ \A j \in 1..Len(list) : list[j].username = users[list[j].userId].username
       /\ \A j \in 1..Len(list), k \in 1..Len(list) :
            j < k => Pos(list[j].userId) < Pos(list[k].userId)

\* a login made both users online: users-update lists the two in registration
\* order, which is not the order of their ids
C25_Witness ==
  /\ Emitted(out, "login-success") # {}
  /\ \E i \in Emitted(out, "users-update") :
       /\ Len(out[i].data.users) = 2
       /\ out[i].data.users[1].userId = userOrder[1]
       /\ StrLess(out[i].data.users[2].userId, out[i].data.users[1].userId)

(* ---------------------------- the store ------------------------------- *)
\* The handlers with the payloads of the contract, from the states of
\* InitPayload, the store growing to MaxMsgs + 1 messages.
NextStore ==
  \/ Flush /\ UNCHANGED page
  \/ Idle /\ UNCHANGED page /\ \E s \in sockets, userId \in ClientIds : UserLogin(s, userId)
  \/ Idle /\ UNCHANGED page /\ \E s \in sockets, otherUserId \in ClientIds : GetChatHistory(s, otherUserId)
  \/ Idle /\ UNCHANGED page /\ \E s \in sockets, recipientId \in ClientIds, message \in Bodies :
       SendMessageUpTo(MaxMsgs + 1, s, recipientId, message)
  \/ Idle /\ UNCHANGED page /\ \E s \in sockets, recipientId \in ClientIds, isTyping \in BOOLEAN :
       Typing(s, recipientId, isTyping)
  \/ Idle /\ UNCHANGED page /\ \E s \in sockets : Disconnect(s)
  \/ Idle /\ UNCHANGED page /\ \E s \in sockets : Logout(s)

SpecStore == InitPayload /\ [][NextStore]_vars

IsPrefix(a, b) == Len(a) <= Len(b) /\ SubSeq(b, 1, Len(a)) = a

\* the conversations that a step created or changed
Touched == {k \in DOMAIN messages' : k \notin DOMAIN messages \/ messages'[k] # messages[k]}

(* C26: the store is append-only: in every step each conversation is a     *)
(* prefix of what it is afterwards and none is deleted; a successful       *)
(* send-message appends exactly one message at the end of the              *)
(* (sender, recipient) conversation, creating it if absent, and leaves the *)
(* other conversations, the registry and the bindings unchanged.           *)
C26_AppendOnly ==
  [][/\ \A k \in DOMAIN messages :
          k \in DOMAIN messages' /\ IsPrefix(messages[k], messages'[k])
     /\ \A s \in sockets, recipientId \in ClientIds, message \in Bodies :
          (Bound(s) /\ recipientId \in DOMAIN users
             /\ SendMessageUpTo(MaxMsgs + 1, s, recipientId, message)) =>
            LET before == Conversation(connections[s], recipientId)
                after == Conversation(connections[s], recipientId)'
            IN /\ Len(after) = Len(before) + 1
               /\ SubSeq(after, 1, Len(before)) = before
               /\ after[Len(after)].senderId = connections[s]
               /\ after[Len(after)].recipientId = recipientId
               /\ after[Len(after)].message = Trim(message)
               /\ Cardinality(Touched) = 1
               /\ totalMessages' = totalMessages + 1
               /\ UNCHANGED <<users, userOrder, connections>>]_vars

\* a message was appended to a conversation that had messages already, while
\* nothing else changed: it is the last one, the earlier ones are before it
C26_Witness ==
  /\ \E i \in Emitted(out, "message-sent") :
       \E k \in DOMAIN messages :
         /\ Len(messages[k]) >= 2
         /\ messages[k][Len(messages[k])] = out[i].data.msg
         /\ messages[k][1] = HistMessage(1)

(* ---------------------------- the chat page and the server ------------- *)
\* Three users registered ("Al", "Bob", "Cy", random parts "z", "a", "m") and
\* each logged in on its own socket; the chat page is the first user's, on
\* PageSocket; each of the two peers has sent the page's user one message.
PageUserIds ==
  <<GenUserId(Now, <<122>>), GenUserId(Now, <<97>>), GenUserId(Now, <<109>>)>>
PageNames == <<(<<65, 108>>), (<<66, 111, 98>>), (<<67, 121>>)>>
PageUser == PageUserIds[PageSocket]
Peers == {PageUserIds[i] : i \in DOMAIN PageUserIds} \ {PageUser}

PageUsers ==
  [u \in {PageUserIds[i] : i \in DOMAIN PageUserIds} |->
     LET i == CHOOSE n \in DOMAIN PageUserIds : PageUserIds[n] = u
     IN LoginUser([username |-> PageNames[i], socketId |-> NoSocket, online |-> FALSE], i)]

PageConnections == [s \in DOMAIN PageUserIds |-> PageUserIds[s]]

PageStore ==
  LET body == CHOOSE b \in Bodies : TRUE
      Sent(n, from) == MessageData(n, from, PageUsers[from], PageUser, PageUsers[PageUser], body)
      first == StoreMessage([k \in {} |-> 0], PageUserIds[2], PageUser, Sent(1, PageUserIds[2]))
  IN StoreMessage(first, PageUserIds[3], PageUser, Sent(2, PageUserIds[3]))

InitClient ==
  /\ users = PageUsers
  /\ userOrder = PageUserIds
  /\ connections = PageConnections
  /\ messages = PageStore
  /\ sockets = DOMAIN PageUserIds
  /\ nextSocket = Len(PageUserIds) + 1
  /\ out = <<>>
  /\ returned = <<>>
  /\ thrown = NoException
  /\ page = InitialPage

\* the store of this specification holds at most MaxMsgs messages more
PageCap == SumLen(PageStore, DOMAIN PageStore) + MaxMsgs

Request(event, id, message) == [event |-> event, id |-> id, message |-> message]

\* the selectedUser that the listeners registered by the mount effect close
\* over: the effect runs once (dependencies [router]), when selectedUser is null
MountSelectedUser == InitialPage.selectedUser

\* handleSelectUser, then the effect on [selectedUser, socket]: clear the list,
\* emit get-chat-history, register a once("chat-history") listener
SelectUser(user) ==
  /\ user \in Peers
  /\ user # page.selectedUser
  /\ Len(page.sent) < MaxPending
  /\ page' = [selectedUser |-> user,
              messages |-> <<>>,
              once |-> Append(page.once, user),
              sent |-> Append(page.sent, Request("get-chat-history", user, <<>>))]
  /\ UNCHANGED <<users, userOrder, connections, messages, sockets, nextSocket, out,
                 returned, thrown>>

\* handleSendMessage, called by the chat window with a trimmed, non-empty text
HandleSendMessage(message) ==
  /\ page.selectedUser # Null
  /\ Trim(message) # <<>>
  /\ Len(page.sent) < MaxPending
  /\ page' = [page EXCEPT !.sent =
                Append(@, Request("send-message", page.selectedUser, Trim(message)))]
  /\ UNCHANGED <<users, userOrder, connections, messages, sockets, nextSocket, out,
                 returned, thrown>>

\* the server handles the page's events in the order they were emitted
ServeGetChatHistory ==
  /\ page.sent # <<>>
  /\ Head(page.sent).event = "get-chat-history"
  /\ GetChatHistory(PageSocket, Head(page.sent).id)
  /\ page' = [page EXCEPT !.sent = Tail(@)]

ServeSendMessage ==
  /\ page.sent # <<>>
  /\ Head(page.sent).event = "send-message"
  /\ SendMessageUpTo(PageCap, PageSocket, Head(page.sent).id, Head(page.sent).message)
  /\ page' = [page EXCEPT !.sent = Tail(@)]

\* a peer sends the page's user a message
PeerSendMessage(s, message) ==
  /\ s # PageSocket
  /\ SendMessageUpTo(PageCap, s, PageUser, message)
  /\ UNCHANGED page

\* socket.once("chat-history", ...): every pending listener runs, with the
\* selectedUser of the render that registered it, and is removed
OnChatHistory(pg, data) ==
  [pg EXCEPT !.messages = IF \E i \in 1..Len(pg.once) : data.userId = pg.once[i]
                            THEN data.messages ELSE @,
             !.once = <<>>]

\* socketInstance.on("receive-message", ...), registered by the mount effect
OnReceiveMessage(pg, data) ==
  LET selectedUser == MountSelectedUser
  IN IF selectedUser # Null
          /\ (data.msg.senderId = selectedUser \/ data.msg.recipientId = selectedUser)
       THEN [pg EXCEPT !.messages = Append(@, data.msg)]
       ELSE pg

\* socketInstance.on("message-sent", ...)
OnMessageSent(pg, data) == [pg EXCEPT !.messages = Append(@, data.msg)]

\* the page's listeners handle the events emitted to its socket, in order
RECURSIVE PageReceives(_, _)
PageReceives(pg, events) ==
  IF events = <<>> THEN pg
  ELSE LET e == Head(events)
           next == IF PageSocket \notin e.to THEN pg
                   ELSE IF e.event = "chat-history" THEN OnChatHistory(pg, e.data)
                   ELSE IF e.event = "receive-message" THEN OnReceiveMessage(pg, e.data)
                   ELSE IF e.event = "message-sent" THEN OnMessageSent(pg, e.data)
                   ELSE pg
       IN PageReceives(next, Tail(events))

\* the transport delivers what the last handler emitted
DeliverToPage ==
  /\ Flush
  /\ page' = PageReceives(page, out)

NextClient ==
  \/ DeliverToPage
  \/ \E user \in Peers : SelectUser(user)
  \/ \E message \in Bodies : HandleSendMessage(message)
  \/ Idle /\ ServeGetChatHistory
  \/ Idle /\ ServeSendMessage
  \/ Idle /\ \E s \in sockets, message \in Bodies : PeerSendMessage(s, message)

SpecClient == InitClient /\ [][NextClient]_vars

(* C27: the displayed list is only replaced by the history of the user     *)
(* that is selected: a chat-history reply for another user than the one    *)
(* selected when it arrives leaves the displayed list as it is.            *)
C27_HistoryOfSelectedUser ==
  [][\A i \in Emitted(out, "chat-history") :
       (PageSocket \in out[i].to /\ out[i].data.userId # page.selectedUser /\ DeliverToPage) =>
         page'.messages = page.messages]_vars

(* C28: when a peer is selected and a receive-message arrives whose        *)
(* senderId or recipientId is that peer, the message is appended to the    *)
(* displayed list; a message of another conversation is not appended.      *)
C28_ReceivedMessageShown ==
  [][\A i \in Emitted(out, "receive-message") :
       (PageSocket \in out[i].to /\ page.selectedUser # Null /\ DeliverToPage) =>
         IF out[i].data.msg.senderId = page.selectedUser
              \/ out[i].data.msg.recipientId = page.selectedUser
           THEN page'.messages = Append(page.messages, out[i].data.msg)
           ELSE page'.messages = page.messages]_vars

====
